---------------------------- MODULE Spec2Model ----------------------------
(***************************************************************************)
(* Project Euler 57, "Square Root Convergents" (src/main.py).              *)
(*                                                                         *)
(* main(n) counts, with a closed form in the log10 domain, the expansions  *)
(* of sqrt(2) among the first n whose numerator has more decimal digits    *)
(* than the denominator.  The model holds                                  *)
(*   - the frame of one call of main (pc, n, count, c_max, c, i_n, i_d)    *)
(*     and the lines it has printed (out);                                 *)
(*   - the exact integer recurrence of the source's "Idea 1"               *)
(*     (n_0 = d_0 = 1, n_{i+1} = n_i + 2 d_i, d_{i+1} = n_i + d_i), kept   *)
(*     as unbounded integers (limbs), with the digit counts seen so far;   *)
(*   - the argument and value of the previous call of main.                *)
(* The recurrence is stepped one expansion at a time, and main may be      *)
(* called with the current index at each index of CallPoints, so a value   *)
(* main returns can be compared with the exact digit counts of the same    *)
(* range and with the value of an earlier call.                            *)
(***************************************************************************)
EXTENDS Integers, Sequences, FiniteSets, TLC

VARIABLES
    idx,        \* index i of the expansion held in num/den
    num,        \* n_i, exact, little-endian limbs
    den,        \* d_i, exact, little-endian limbs
    excess,     \* number of i in 1..idx with digits(n_i) > digits(d_i)
    gap,        \* gap[k] = number of i in 1..idx with
                \*          digits(n_i) >= k > digits(d_i)
    prev,       \* argument and value of the previous call (n = 0: none)
    pc,         \* position of the call of main
    n,          \* main's argument
    count,      \* main's local `count`
    c_max,      \* main's local `c_max`
    c,          \* main's loop variable `c` (0: loop not entered yet)
    i_n,        \* main's local `i_n`
    i_d,        \* main's local `i_d`
    result,     \* the value main returned (pc = "returned")
    out         \* values printed by the diagnostic line since main was entered

vars ==
    <<idx, num, den, excess, gap, prev, pc, n, count, c_max, c, i_n, i_d,
      result, out>>

---------------------------------------------------------------------------
(* Bounds of the model *)

\* main may be called with every n in 1..SmallN,
SmallN == 12

\* with every n in Cap-1 .. Cap+Near,
Near == 4

\* and with Cap+Far, the last index of the recurrence
Far == 32

\* The literal of `min(..., 1000)` in the denominator crossing index.
Cap == 1000

MaxIdx == Cap + Far

CallPoints == (1..SmallN) \cup ((Cap - 1)..(Cap + Near)) \cup {MaxIdx}

---------------------------------------------------------------------------
(* Arguments.  Python values are tagged with their type; val is the       *)
(* numeric payload (2.0 -> 2, "8" -> 8, True -> 1).                        *)

IntArg(k) == [ty |-> "int", val |-> k]

NoArg == [ty |-> "none", val |-> 0]

InvalidArgs ==
    { IntArg(0), IntArg(-5), IntArg(-1),
      [ty |-> "float", val |-> 2], [ty |-> "str", val |-> 8],
      [ty |-> "bool", val |-> 1] }

\* assert type(n) == int and n > 0
AssertOk_NoTypeCheck(a) == a.val > 0

AssertOk(a) == a.ty = "int" /\ a.val > 0

---------------------------------------------------------------------------
(* Floats.  A float x is held as the pair [hi, lo] standing for            *)
(* (hi * 10^6 + lo) * 10^-12 with 0 <= lo < 10^6: twelve decimals, kept    *)
(* in two words because the products below exceed one machine word.        *)

FxBase == 10^6

FxNorm(h, l) == [hi |-> h + (l \div FxBase), lo |-> l % FxBase]

FxFromInt(k) == [hi |-> k * FxBase, lo |-> 0]

FxAdd(x, y) == FxNorm(x.hi + y.hi, x.lo + y.lo)

FxSub(x, y) == FxNorm(x.hi - y.hi, x.lo - y.lo)

FxMulInt(k, x) == FxNorm(k * x.hi, k * x.lo)

FxHalf(x) == FxNorm(x.hi \div 2, ((x.hi % 2) * FxBase + x.lo) \div 2)

FxLeq(x, y) == x.hi < y.hi \/ (x.hi = y.hi /\ x.lo <= y.lo)

\* floor(x)
FxFloor(x) == x.hi \div FxBase

\* ceil(x / y) for y > 0: the least integer q with x <= q * y
FxCeilDiv(x, y) ==
    LET q0 == x.hi \div y.hi
    IN  CHOOSE q \in (q0 - 2)..(q0 + 2) :
            /\ FxLeq(x, FxMulInt(q, y))
            /\ ~FxLeq(x, FxMulInt(q - 1, y))

Min(a, b) == IF a <= b THEN a ELSE b

\* log10(b), b = (2 + sqrt(2)) / 4     = -0.068769308158...
Log10_b == [hi |-> -68770, lo |-> 691842]

\* log10(2)                            =  0.301029995664...
Log10_2 == [hi |-> 301029, lo |-> 995664]

\* log10(e), e = 1 + sqrt(2)           =  0.382775685338...
Log10_e == [hi |-> 382775, lo |-> 685338]

---------------------------------------------------------------------------
(* The closed form of main *)

\* c_max = floor(log10(b) + log10(2)/2 + n*log10(e))
CMax_PlusOne(m) ==
    FxFloor(FxAdd(FxAdd(Log10_b, FxHalf(Log10_2)), FxMulInt(m, Log10_e))) + 1

CMax(m) ==
    FxFloor(FxAdd(FxAdd(Log10_b, FxHalf(Log10_2)), FxMulInt(m, Log10_e)))

\* the ceil(...) of i_n, before the clamp
CeilN(cc) ==
    FxCeilDiv(FxSub(FxSub(FxFromInt(cc - 1), Log10_b), FxHalf(Log10_2)), Log10_e)

\* the ceil(...) of i_d, before the clamp
CeilD(cc) ==
    FxCeilDiv(FxSub(FxFromInt(cc - 1), Log10_b), Log10_e)

\* i_n = min(ceil((c - 1 - log10(b) - log10(2)/2) / log10(e)), n)
I_n_NoSqrt2(cc, m) == Min(CeilD(cc), m)

I_n(cc, m) == Min(CeilN(cc), m)

\* i_d = min(ceil((c - 1 - log10(b)) / log10(e)), 1000)
I_d(cc) == Min(CeilD(cc), Cap)

---------------------------------------------------------------------------
(* Exact integers: little-endian sequences of limbs below LimbBase, of      *)
(* eight decimal digits each                                               *)

LimbBase == 10^8

RECURSIVE AddC(_, _, _)
AddC(a, b, carry) ==
    IF a = <<>> /\ b = <<>>
    THEN IF carry = 0 THEN <<>> ELSE <<carry>>
    ELSE LET x == IF a = <<>> THEN 0 ELSE Head(a)
             y == IF b = <<>> THEN 0 ELSE Head(b)
             s == x + y + carry
             ta == IF a = <<>> THEN <<>> ELSE Tail(a)
             tb == IF b = <<>> THEN <<>> ELSE Tail(b)
         IN  <<s % LimbBase>> \o AddC(ta, tb, s \div LimbBase)

Add(a, b) == AddC(a, b, 0)

RECURSIVE DigitsInt(_)
DigitsInt(k) == IF k < 10 THEN 1 ELSE 1 + DigitsInt(k \div 10)

\* number of decimal digits of a positive integer
Digits(a) == 8 * (Len(a) - 1) + DigitsInt(a[Len(a)])

\* n_{i+1} = n_i + 2*d_i
NextNum(nu, de) == Add(nu, Add(de, de))

\* d_{i+1} = n_i + d_i
NextDen_AfterNum(nu, de) == Add(NextNum(nu, de), de)

NextDen(nu, de) == Add(nu, de)

---------------------------------------------------------------------------
(* Initial state: e_0 = 1/1, nothing called *)

NoCall == [n |-> 0, r |-> 0]

Init ==
    /\ idx = 0
    /\ num = <<1>>
    /\ den = <<1>>
    /\ excess = 0
    /\ gap = <<>>
    /\ prev = NoCall
    /\ pc = "idle"
    /\ n = NoArg
    /\ count = 0
    /\ c_max = 0
    /\ c = 0
    /\ i_n = 0
    /\ i_d = 0
    /\ result = 0
    /\ out = <<>>

frame == <<n, count, c_max, c, i_n, i_d, result>>
exact == <<idx, num, den, excess, gap>>

\* gap with one more expansion, of pn numerator and pd denominator digits
GapWith(g, pn, pd) ==
    [k \in 1..(IF pn > Len(g) THEN pn ELSE Len(g)) |->
        (IF k <= Len(g) THEN g[k] ELSE 0)
        + (IF pn >= k /\ k > pd THEN 1 ELSE 0)]

GapAt(k) == IF k \in 1..Len(gap) THEN gap[k] ELSE 0

\* the next expansion of the recurrence
Expand ==
    /\ pc = "idle"
    /\ idx < MaxIdx
    /\ idx' = idx + 1
    /\ num' = NextNum(num, den)
    /\ den' = NextDen(num, den)
    /\ excess' = excess + (IF Digits(num') > Digits(den') THEN 1 ELSE 0)
    /\ gap' = GapWith(gap, Digits(num'), Digits(den'))
    /\ UNCHANGED <<prev, pc, frame, out>>

\* main(n) is entered with the current index
CallValid ==
    /\ pc = "idle"
    /\ idx \in CallPoints
    /\ idx > prev.n
    /\ pc' = "assert"
    /\ n' = IntArg(idx)
    /\ out' = <<>>
    /\ UNCHANGED <<exact, prev, count, c_max, c, i_n, i_d, result>>

\* main(a) is entered with an argument that is no positive integer
CallInvalid ==
    /\ pc = "idle"
    /\ idx = 0
    /\ \E a \in InvalidArgs :
          /\ pc' = "assert"
          /\ n' = a
    /\ out' = <<>>
    /\ UNCHANGED <<exact, prev, count, c_max, c, i_n, i_d, result>>

\* assert type(n) == int and n > 0
CheckArg ==
    /\ pc = "assert"
    /\ pc' = IF AssertOk(n) THEN "setup" ELSE "error"
    /\ UNCHANGED <<exact, prev, frame, out>>

\* count = 0; c_max = ...; print(c_max)
Setup ==
    /\ pc = "setup"
    /\ count' = 0
    /\ c_max' = CMax(n.val)
    /\ out' = Append(out, c_max')
    /\ c' = 0
    /\ pc' = "loop"
    /\ UNCHANGED <<exact, prev, n, i_n, i_d, result>>

\* one iteration of `for c in range(1, c_max+1)`
LoopBody ==
    /\ pc = "loop"
    /\ c < c_max
    /\ c' = c + 1
    /\ i_n' = I_n(c', n.val)
    /\ i_d' = I_d(c')
    /\ count' = count + i_d' - i_n'
    /\ UNCHANGED <<exact, prev, pc, n, c_max, result, out>>

\* return count
Return ==
    /\ pc = "loop"
    /\ c >= c_max
    /\ result' = count
    /\ pc' = "returned"
    /\ UNCHANGED <<exact, prev, n, count, c_max, c, i_n, i_d, out>>

\* the caller takes the value; main's frame is gone
Resume ==
    /\ pc = "returned"
    /\ prev' = [n |-> n.val, r |-> result]
    /\ pc' = "idle"
    /\ n' = NoArg
    /\ count' = 0
    /\ c_max' = 0
    /\ c' = 0
    /\ i_n' = 0
    /\ i_d' = 0
    /\ result' = 0
    /\ UNCHANGED <<exact, out>>

Next ==
    \/ Expand
    \/ CallValid
    \/ CallInvalid
    \/ CheckArg
    \/ Setup
    \/ LoopBody
    \/ Return
    \/ Resume

Spec == Init /\ [][Next]_vars

---------------------------------------------------------------------------
(* Properties *)

\* main has returned `result` for argument n.val
Returned == pc = "returned"

\* an iteration of the loop body has just run, for digit count c
InLoop == pc = "loop" /\ c >= 1

\* C1: for every positive n, main(n) equals the number of indices i in 1..n
\* whose exact numerator n_i has more decimal digits than the exact
\* denominator d_i.
C1_ClosedFormEqualsExactCount == Returned => result = excess

\* C2: main(8) returns 1; the 8th expansion, 1393/985, is the first whose
\* numerator has more digits than its denominator, and the only one among
\* the first 8.
C2_MainOfEightIsOne ==
    /\ idx \in 1..7 => excess = 0
    /\ idx = 8 => (excess = 1 /\ num = <<1393>> /\ den = <<985>>)
    /\ (Returned /\ n.val = 8) => result = 1

C2_Witness == Returned /\ n.val = 8 /\ idx = 8 /\ result = 1

\* C3: main(1000) returns 153, the number of the first one-thousand
\* expansions whose numerator has more digits than the denominator.
C3_MainOfThousandIs153 ==
    (Returned /\ n.val = 1000) => (result = 153 /\ excess = 153)

C3_Witness == Returned /\ n.val = 1000 /\ idx = 1000 /\ result = 153

\* C4: main is monotone: for positive n1 <= n2, n2 above 1000 included,
\* main(n1) <= main(n2).
C4_Monotone == (Returned /\ prev.n >= 1 /\ prev.n <= n.val) => prev.r <= result

\* C5: for every positive n, n above 1000 included, the value returned is
\* non-negative, and so is the running total after every term added.
C5_NonNegative ==
    /\ Returned => result >= 0
    /\ InLoop => count >= 0

\* C6: a call of main with an argument that is no positive integer fails
\* before anything is computed or printed: it goes from the assertion to the
\* error and nowhere else, no count is returned, no line is printed.
C6_InvalidArgumentFails ==
    /\ (pc # "idle" /\ ~(n.ty = "int" /\ n.val > 0)) =>
          /\ pc \in {"assert", "error"}
          /\ out = <<>>
          /\ <<count, c_max, c, i_n, i_d, result>> = <<0, 0, 0, 0, 0, 0>>
          /\ prev = NoCall
    /\ pc = "error" => ~(n.ty = "int" /\ n.val > 0)

C6_Witness == pc = "error" /\ n = IntArg(-5) /\ out = <<>>

\* C7: in every state of the exact recurrence, the numerator's digit count
\* minus the denominator's is 0 or 1.
C7_DigitDifferenceZeroOrOne == Digits(num) - Digits(den) \in {0, 1}

C7_Witness == idx > 1000 /\ Digits(num) - Digits(den) = 1

\* C8: in every loop iteration both crossing indices are clamped to the
\* argument: i_n <= n, i_d <= n, and i_d is min(ceil(...), n).
C8_ClampedToArgument ==
    InLoop =>
        /\ i_n <= n.val
        /\ i_d <= n.val
        /\ i_d = Min(CeilD(c), n.val)

\* C9: c_max is the number of decimal digits of the n-th numerator.
C9_CMaxIsDigitsOfNumerator ==
    pc \in {"loop", "returned"} => c_max = Digits(num)

\* C10: the term i_d - i_n added for digit count c is the number of indices
\* i in 1..n whose numerator has at least c digits and whose denominator has
\* fewer than c.
C10_TermCountsGap == InLoop => i_d - i_n = GapAt(c)

=============================================================================
